---- MODULE Spec2Model ----
(***************************************************************************)
(* Model of the Color class of ultra-color (src/src/index.js).             *)
(*                                                                         *)
(* Every JavaScript Number is modelled as an IEEE-754 double: a record     *)
(* [cls, sg, m, e] whose finite value is sg * m * 2^e, m an odd natural of *)
(* at most 53 bits (or zero).  Arithmetic on Numbers rounds to nearest,    *)
(* ties to even, as the JavaScript operators do.  The exponent range of    *)
(* doubles is not modelled: no value of this program leaves it.            *)
(* Naturals wider than 31 bits are little-endian                           *)
(* sequences of 15-bit limbs.  Strings are sequences of UTF-16 code units. *)
(***************************************************************************)
EXTENDS Integers, Sequences, FiniteSets, TLC

VARIABLES input, rng, hist, ret

vars == <<input, rng, hist, ret>>

(***************************************************************************)
(* Naturals of arbitrary width (the significands of doubles).              *)
(***************************************************************************)
Base == 32768

LimbBits == 15

Pow2(k) == 2 ^ k

RECURSIVE NTrim(_)
NTrim(a) ==
    IF a = <<>> THEN a
    ELSE IF a[Len(a)] = 0 THEN NTrim(SubSeq(a, 1, Len(a) - 1)) ELSE a

RECURSIVE NFromInt(_)
NFromInt(n) == IF n = 0 THEN <<>> ELSE <<n % Base>> \o NFromInt(n \div Base)

Limb(a, i) == IF i <= Len(a) THEN a[i] ELSE 0

RECURSIVE NAddC(_, _, _, _)
NAddC(a, b, i, c) ==
    IF i > Len(a) /\ i > Len(b)
    THEN (IF c = 0 THEN <<>> ELSE <<c>>)
    ELSE LET x == Limb(a, i) + Limb(b, i) + c
         IN  <<x % Base>> \o NAddC(a, b, i + 1, x \div Base)

NAdd(a, b) == NAddC(a, b, 1, 0)

\* a - b for a >= b
RECURSIVE NSubC(_, _, _, _)
NSubC(a, b, i, c) ==
    IF i > Len(a) THEN <<>>
    ELSE LET x == Limb(a, i) - Limb(b, i) - c
         IN  <<x % Base>> \o NSubC(a, b, i + 1, IF x < 0 THEN 1 ELSE 0)

NSub(a, b) == NTrim(NSubC(a, b, 1, 0))

RECURSIVE NCmpAt(_, _, _)
NCmpAt(a, b, i) ==
    IF i = 0 THEN 0
    ELSE IF a[i] > b[i] THEN 1
    ELSE IF a[i] < b[i] THEN -1
    ELSE NCmpAt(a, b, i - 1)

\* -1, 0, 1 as a < b, a = b, a > b
NCmp(a, b) ==
    IF Len(a) > Len(b) THEN 1
    ELSE IF Len(a) < Len(b) THEN -1
    ELSE NCmpAt(a, b, Len(a))

RECURSIVE NMulSmallC(_, _, _, _)
NMulSmallC(a, k, i, c) ==
    IF i > Len(a)
    THEN (IF c = 0 THEN <<>> ELSE <<c>>)
    ELSE LET x == a[i] * k + c
         IN  <<x % Base>> \o NMulSmallC(a, k, i + 1, x \div Base)

\* a * k for 0 <= k < Base
NMulSmall(a, k) == IF k = 0 THEN <<>> ELSE NMulSmallC(a, k, 1, 0)

NShiftLimbs(a, n) == IF a = <<>> THEN a ELSE [i \in 1..n |-> 0] \o a

RECURSIVE NMul(_, _)
NMul(a, b) ==
    IF b = <<>> \/ a = <<>> THEN <<>>
    ELSE NAdd(NMulSmall(a, Head(b)), NShiftLimbs(NMul(a, Tail(b)), 1))

NShl(a, k) == NShiftLimbs(NMulSmall(a, Pow2(k % LimbBits)), k \div LimbBits)

NShr(a, k) ==
    LET n == k \div LimbBits
        r == k % LimbBits
        p == Pow2(r)
        q == Pow2(LimbBits - r)
    IN  IF n >= Len(a) THEN <<>>
        ELSE NTrim([i \in 1..(Len(a) - n) |->
                      (a[i + n] \div p) + (Limb(a, i + n + 1) % p) * q])

\* a mod 2^k
NLowBits(a, k) ==
    LET n == k \div LimbBits
        r == k % LimbBits
    IN  IF n >= Len(a) THEN a
        ELSE NTrim([i \in 1..(n + 1) |->
                      IF i <= n THEN a[i] ELSE a[i] % Pow2(r)])

RECURSIVE BitLenSmall(_)
BitLenSmall(x) == IF x = 0 THEN 0 ELSE 1 + BitLenSmall(x \div 2)

NBitLen(a) ==
    IF a = <<>> THEN 0 ELSE (Len(a) - 1) * LimbBits + BitLenSmall(a[Len(a)])

NIsOdd(a) == a # <<>> /\ a[1] % 2 = 1

RECURSIVE TrailingZerosSmall(_)
TrailingZerosSmall(x) == IF x % 2 = 1 THEN 0 ELSE 1 + TrailingZerosSmall(x \div 2)

RECURSIVE NTrailingZerosAt(_, _)
NTrailingZerosAt(a, i) ==
    IF a[i] = 0 THEN LimbBits + NTrailingZerosAt(a, i + 1)
    ELSE TrailingZerosSmall(a[i])

\* for a # 0
NTrailingZeros(a) == NTrailingZerosAt(a, 1)

\* the largest q with q * b <= r, searched downwards from the estimate q
RECURSIVE NDivFix(_, _, _)
NDivFix(r, b, q) ==
    IF NCmp(NMulSmall(b, q), r) > 0 THEN NDivFix(r, b, q - 1) ELSE q

\* one digit of a long division: r \div b for r < b * Base, estimated from
\* the leading limbs (b's leading limb is at least Base / 2)
NDivDigit(r, b) ==
    LET n   == Len(b)
        top == IF Len(r) > n THEN r[n + 1] * Base + r[n] ELSE r[n]
        est == top \div b[n]
    IN  NDivFix(r, b, IF est > Base - 1 THEN Base - 1 ELSE est)

RECURSIVE NDivLimbs(_, _, _, _, _)

\* the digit d of the quotient is known: subtract and go on
NDivTake(a, b, i, r, q, d) ==
    NDivLimbs(a, b, i - 1, NSub(r, NMulSmall(b, d)), <<d>> \o q)

\* limb i of a has been brought down into r
NDivBring(a, b, i, r, q) ==
    IF Len(r) < Len(b) THEN NDivLimbs(a, b, i - 1, r, <<0>> \o q)
    ELSE NDivTake(a, b, i, r, q, NDivDigit(r, b))

\* long division of a by b, limb i of a down to limb 1 still to bring down:
\* <<quotient, remainder>>
NDivLimbs(a, b, i, r, q) ==
    IF i = 0 THEN <<NTrim(q), r>>
    ELSE NDivBring(a, b, i, NTrim(<<a[i]>> \o r), q)

\* a, b shifted left until b's leading limb is at least Base / 2
NDivNormal(a, b) == NDivLimbs(a, b, Len(a), <<>>, <<>>)

NDivShifted(qr, s) == <<qr[1], NShr(qr[2], s)>>

NDivBy(a, b, s) == NDivShifted(NDivNormal(NShl(a, s), NShl(b, s)), s)

\* <<quotient, remainder>> of a by b # 0
NDivMod(a, b) == NDivBy(a, b, LimbBits - BitLenSmall(b[Len(b)]))

(***************************************************************************)
(* JavaScript Numbers: IEEE-754 doubles, round to nearest, ties to even.   *)
(***************************************************************************)
MantBits == 53

DZero == [cls |-> "fin", sg |-> 1, m |-> <<>>, e |-> 0]

DInf(s) == [cls |-> "inf", sg |-> s, m |-> <<>>, e |-> 0]

DNaN == [cls |-> "nan", sg |-> 1, m |-> <<>>, e |-> 0]

DStrip(s, n, x, tz) == [cls |-> "fin", sg |-> s, m |-> NShr(n, tz), e |-> x + tz]

\* the double sg * n * 2^x for a natural n of at most 53 bits
DExact(s, n, x) ==
    IF n = <<>> THEN [cls |-> "fin", sg |-> s, m |-> <<>>, e |-> 0]
    ELSE DStrip(s, n, x, NTrailingZeros(n))

\* q is the kept part; c compares the part cut off with one half: -1, 0, 1
DRoundUp(s, q, x, sticky, c) ==
    DExact(s, IF c > 0 \/ (c = 0 /\ (sticky = 1 \/ NIsOdd(q)))
              THEN NAdd(q, <<1>>) ELSE q, x)

\* the low sh bits of n are cut off
DRoundOff(s, n, x, sticky, sh) ==
    DRoundUp(s, NShr(n, sh), x + sh, sticky,
             NCmp(NLowBits(n, sh), NShl(<<1>>, sh - 1)))

\* the double nearest to sg * (n + f) * 2^x, where 0 < f < 1 if sticky = 1
\* and f = 0 otherwise; a sticky n has more than 53 bits
DRound(s, n, x, sticky) ==
    IF NBitLen(n) <= MantBits THEN DExact(s, n, x)
    ELSE DRoundOff(s, n, x, sticky, NBitLen(n) - MantBits)

\* the double of an integer n, -2^31 <= n < 2^31
DFromInt(n) ==
    IF n < 0 THEN DExact(-1, NAdd(NFromInt(-(n + 1)), <<1>>), 0)
    ELSE DExact(1, NFromInt(n), 0)

\* the double hi * 65536 + lo of two 16-bit halves
DFromHalves(hi, lo) == DExact(1, NAdd(NShl(NFromInt(hi), 16), NFromInt(lo)), 0)

DIsZero(a) == a.cls = "fin" /\ a.m = <<>>

DNeg(a) == [a EXCEPT !.sg = -a.sg]

DAbs(a) == [a EXCEPT !.sg = 1]

\* comparison of finite magnitudes: -1, 0, 1
DCmpMag(a, b) ==
    IF a.m = <<>> \/ b.m = <<>>
    THEN (IF a.m = b.m THEN 0 ELSE IF a.m = <<>> THEN -1 ELSE 1)
    ELSE LET ta == NBitLen(a.m) + a.e
             tb == NBitLen(b.m) + b.e
         IN  IF ta # tb THEN (IF ta > tb THEN 1 ELSE -1)
             ELSE LET x == IF a.e < b.e THEN a.e ELSE b.e
                  IN  NCmp(NShl(a.m, a.e - x), NShl(b.m, b.e - x))

\* comparison of finite doubles (-0 equals +0): -1, 0, 1
DCmp(a, b) ==
    IF DIsZero(a) /\ DIsZero(b) THEN 0
    ELSE IF a.sg # b.sg THEN (IF DIsZero(a) THEN -b.sg ELSE a.sg)
    ELSE a.sg * DCmpMag(a, b)

DLt(a, b) == a.cls = "fin" /\ b.cls = "fin" /\ DCmp(a, b) < 0

DGe(a, b) == a.cls = "fin" /\ b.cls = "fin" /\ DCmp(a, b) >= 0

\* a === b on Numbers
DEq(a, b) == a.cls = "fin" /\ b.cls = "fin" /\ DCmp(a, b) = 0

\* sa * ma * 2^x + sb * mb * 2^x for opposite signs; c compares ma with mb
DSubMags(sa, ma, sb, mb, x, c) ==
    IF c = 0 THEN DZero
    ELSE IF c > 0 THEN DRound(sa, NSub(ma, mb), x, 0)
    ELSE DRound(sb, NSub(mb, ma), x, 0)

DAddMags(sa, ma, sb, mb, x) ==
    IF sa = sb THEN DRound(sa, NAdd(ma, mb), x, 0)
    ELSE DSubMags(sa, ma, sb, mb, x, NCmp(ma, mb))

\* both significands brought to the exponent x
DAddAt(a, b, x) ==
    DAddMags(a.sg, NShl(a.m, a.e - x), b.sg, NShl(b.m, b.e - x), x)

\* a + b
DAdd(a, b) ==
    IF a.cls # "fin" \/ b.cls # "fin"
    THEN (IF a.cls = "nan" \/ b.cls = "nan" THEN DNaN
          ELSE IF a.cls = "inf" /\ b.cls = "inf" /\ a.sg # b.sg THEN DNaN
          ELSE IF a.cls = "inf" THEN a ELSE b)
    ELSE IF a.m = <<>> THEN (IF b.m = <<>> /\ a.sg = 1 THEN a ELSE b)
    ELSE IF b.m = <<>> THEN a
    ELSE DAddAt(a, b, IF a.e < b.e THEN a.e ELSE b.e)

\* a - b
DSub(a, b) == DAdd(a, DNeg(b))

\* a * b
DMul(a, b) ==
    IF a.cls # "fin" \/ b.cls # "fin"
    THEN (IF a.cls = "nan" \/ b.cls = "nan" \/ DIsZero(a) \/ DIsZero(b) THEN DNaN
          ELSE DInf(a.sg * b.sg))
    ELSE DRound(a.sg * b.sg, NMul(a.m, b.m), a.e + b.e, 0)

\* qr is <<quotient, remainder>>: a remainder makes the quotient inexact
DQuotient(s, qr, x) == DRound(s, qr[1], x, IF qr[2] = <<>> THEN 0 ELSE 1)

\* a.m is shifted left by k bits so that the quotient has over 53 bits
DDivAt(a, b, k) ==
    DQuotient(a.sg * b.sg, NDivMod(NShl(a.m, k), b.m), a.e - b.e - k)

\* a / b
DDiv(a, b) ==
    IF a.cls = "nan" \/ b.cls = "nan" THEN DNaN
    ELSE IF a.cls = "inf" THEN (IF b.cls = "inf" THEN DNaN ELSE DInf(a.sg * b.sg))
    ELSE IF b.cls = "inf" THEN [DZero EXCEPT !.sg = a.sg * b.sg]
    ELSE IF b.m = <<>> THEN (IF a.m = <<>> THEN DNaN ELSE DInf(a.sg * b.sg))
    ELSE IF a.m = <<>> THEN [DZero EXCEPT !.sg = a.sg * b.sg]
    ELSE LET d == MantBits + 2 + NBitLen(b.m) - NBitLen(a.m)
         IN  DDivAt(a, b, IF d > 0 THEN d ELSE 0)

\* a % b: the exact remainder, with the sign of the dividend
DMod(a, b) ==
    IF a.cls # "fin" \/ b.cls = "nan" \/ DIsZero(b) THEN DNaN
    ELSE IF b.cls = "inf" \/ a.m = <<>> THEN a
    ELSE LET x == IF a.e < b.e THEN a.e ELSE b.e
             r == NDivMod(NShl(a.m, a.e - x), NShl(b.m, b.e - x))[2]
         IN  DExact(a.sg, r, x)

\* Math.floor(a)
DFloor(a) ==
    IF a.cls # "fin" \/ a.e >= 0 THEN a
    ELSE LET q == NShr(a.m, -a.e)
         IN  IF a.sg = 1 THEN DExact(1, q, 0) ELSE DExact(-1, NAdd(q, <<1>>), 0)

\* Math.round(a): floor(a + 1/2) computed exactly
MathRound(a) ==
    IF a.cls # "fin" \/ a.e >= 0 THEN a
    ELSE LET half == NShl(<<1>>, -a.e - 1)
         IN  IF a.sg = 1 THEN DExact(1, NShr(NAdd(a.m, half), -a.e), 0)
             ELSE IF NCmp(a.m, half) <= 0 THEN [DZero EXCEPT !.sg = -1]
             ELSE LET n == NSub(a.m, half)
                      q == NShr(n, -a.e)
                  IN  DExact(-1, IF NLowBits(n, -a.e) = <<>> THEN q
                                 ELSE NAdd(q, <<1>>), 0)

\* Math.max(a, b), Math.min(a, b) on finite Numbers
MathMax(a, b) == IF DCmp(a, b) >= 0 THEN a ELSE b

MathMin(a, b) == IF DCmp(a, b) <= 0 THEN a ELSE b

\* the value of an integral double of magnitude below 2^31
NToInt(n) == Limb(n, 1) + Limb(n, 2) * Base + Limb(n, 3) * Base * Base

DToInt(a) == a.sg * NToInt(NShl(a.m, a.e))

DIsInt(a) == a.cls = "fin" /\ a.e >= 0

(***************************************************************************)
(* The 32-bit integer operators of JavaScript.  An int32 is an integer of  *)
(* the model; its two 16-bit halves are taken unsigned.                    *)
(***************************************************************************)
Hi16(x) == (x \div 65536) % 65536

Lo16(x) == x % 65536

\* the int32 with the unsigned halves hi, lo
Int32Of(hi, lo) ==
    IF hi >= 32768 THEN (hi - 65536) * 65536 + lo ELSE hi * 65536 + lo

\* the int32 that is sg * (hi * 65536 + lo) modulo 2^32
Int32Signed(sg, hi, lo) ==
    IF sg = 1 THEN Int32Of(hi, lo)
    ELSE IF lo = 0 THEN Int32Of((65536 - hi) % 65536, 0)
    ELSE Int32Of(65535 - hi, 65536 - lo)

\* n is a natural below 2^32
Int32OfLimbs(sg, n) ==
    Int32Signed(sg, (Limb(n, 2) \div 2) + Limb(n, 3) * 16384,
                Limb(n, 1) + (Limb(n, 2) % 2) * 32768)

\* ToInt32(a): truncate, reduce modulo 2^32, read as signed
ToInt32(a) ==
    IF a.cls # "fin" \/ a.m = <<>> THEN 0
    ELSE Int32OfLimbs(a.sg, IF a.e >= 0 THEN NLowBits(NShl(a.m, a.e), 32)
                            ELSE NLowBits(NShr(a.m, -a.e), 32))

RECURSIVE And16(_, _)
And16(x, y) ==
    IF x = 0 \/ y = 0 THEN 0
    ELSE (x % 2) * (y % 2) + 2 * And16(x \div 2, y \div 2)

RECURSIVE Or16(_, _)
Or16(x, y) ==
    IF x = 0 THEN y
    ELSE IF y = 0 THEN x
    ELSE (IF x % 2 = 1 \/ y % 2 = 1 THEN 1 ELSE 0) + 2 * Or16(x \div 2, y \div 2)

\* x & y on int32
BitAnd(x, y) == Int32Of(And16(Hi16(x), Hi16(y)), And16(Lo16(x), Lo16(y)))

\* x | y on int32
BitOr(x, y) == Int32Of(Or16(Hi16(x), Hi16(y)), Or16(Lo16(x), Lo16(y)))

\* x << k on int32, 0 <= k <= 31: the bits shifted out are lost
Shl(x, k) ==
    IF k >= 16 THEN Int32Of((Lo16(x) * Pow2(k - 16)) % 65536, 0)
    ELSE LET lo == Lo16(x) * Pow2(k)
         IN  Int32Of((Hi16(x) * Pow2(k) + lo \div 65536) % 65536, lo % 65536)

\* x >> k on int32: the sign bit is copied in
Sar(x, k) == IF k = 31 THEN (IF x < 0 THEN -1 ELSE 0) ELSE x \div Pow2(k)

\* x >>> k on int32, 1 <= k <= 31: zeros are shifted in
UShr(x, k) ==
    IF k >= 16 THEN Hi16(x) \div Pow2(k - 16)
    ELSE (Hi16(x) \div Pow2(k)) * 65536
         + (Hi16(x) % Pow2(k)) * Pow2(16 - k) + Lo16(x) \div Pow2(k)

(***************************************************************************)
(* The Number literals of the source.                                      *)
(***************************************************************************)
D0 == DFromInt(0)
D1 == DFromInt(1)
D2 == DFromInt(2)
D4 == DFromInt(4)
D6 == DFromInt(6)
D60 == DFromInt(60)
D100 == DFromInt(100)
D120 == DFromInt(120)
D128 == DFromInt(128)
D180 == DFromInt(180)
D230 == DFromInt(230)
D240 == DFromInt(240)
D255 == DFromInt(255)
D360 == DFromInt(360)
D16777215 == DFromInt(16777215)
\* 4294967295 = 0xFFFFFFFF
D4294967295 == DFromHalves(65535, 65535)
\* 4278190080 = 0xFF000000, 16711680 = 0x00FF0000, 65280 = 0x0000FF00
MaskR == DFromHalves(65280, 0)
MaskG == DFromInt(16711680)
MaskB == DFromInt(65280)
\* 0.618033988749895: the double nearest to this decimal
goldenRatio == [cls |-> "fin", sg |-> 1, m |-> <<26961, 28255, 7100, 158>>, e |-> -53]

\* "0123456789abcdef" as UTF-16 code units
HEX == <<48, 49, 50, 51, 52, 53, 54, 55, 56, 57, 97, 98, 99, 100, 101, 102>>

\* "#"
Hash == 35

\* what string concatenation makes of undefined: "undefined"
UndefinedText == <<117, 110, 100, 101, 102, 105, 110, 101, 100>>

(***************************************************************************)
(* The static methods of Color, as functions of their arguments.           *)
(***************************************************************************)
\* Color.#random with the value u that Math.random() delivers
random(u, min, max) == DFloor(DAdd(DMul(u, DAdd(DSub(max, min), D1)), min))

\* green shifted like red
rgbToNumberWide(r, g, b) ==
    DFromInt(BitOr(BitOr(Shl(ToInt32(r), 16), Shl(ToInt32(g), 16)), ToInt32(b)))

rgbToNumber(r, g, b) ==
    DFromInt(BitOr(BitOr(Shl(ToInt32(r), 16), Shl(ToInt32(g), 8)), ToInt32(b)))

rgbaToNumber(r, g, b, a) ==
    DAdd(DAdd(DAdd(DMul(r, DFromInt(16777216)), DMul(g, DFromInt(65536))),
              DMul(b, DFromInt(256))), a)

numberToRgb(num) ==
    [r |-> DFromInt(BitAnd(UShr(ToInt32(num), 16), 255)),
     g |-> DFromInt(BitAnd(UShr(ToInt32(num), 8), 255)),
     b |-> DFromInt(BitAnd(ToInt32(num), 255))]

\* the top byte taken with >>, which copies the sign bit in
numberToRgbaSigned(num) ==
    [r |-> DFromInt(Sar(BitAnd(ToInt32(num), ToInt32(MaskR)), 24)),
     g |-> DFromInt(UShr(BitAnd(ToInt32(num), ToInt32(MaskG)), 16)),
     b |-> DFromInt(UShr(BitAnd(ToInt32(num), ToInt32(MaskB)), 8)),
     a |-> DFromInt(BitAnd(ToInt32(num), 255))]

numberToRgba(num) ==
    [r |-> DFromInt(UShr(BitAnd(ToInt32(num), ToInt32(MaskR)), 24)),
     g |-> DFromInt(UShr(BitAnd(ToInt32(num), ToInt32(MaskG)), 16)),
     b |-> DFromInt(UShr(BitAnd(ToInt32(num), ToInt32(MaskB)), 8)),
     a |-> DFromInt(BitAnd(ToInt32(num), 255))]

\* digits and lower-case letters only: no folding of the case
HexDigitNoFold(c) == IF c >= 97 THEN c - 87 ELSE c - 48

\* (hex.charCodeAt(i) % 32 + 9) % 25 for the code unit c
HexDigit(c) == ((c % 32) + 9) % 25

\* the first index of the loops: hex[0] === "#" ? 1 : 0 (indices from 1 here)
HexStart(hex) == IF Len(hex) > 0 /\ hex[1] = Hash THEN 2 ELSE 1

RECURSIVE hexToNumberBitLoop(_, _, _)
hexToNumberBitLoop(hex, i, num) ==
    IF i > Len(hex) THEN num
    ELSE hexToNumberBitLoop(hex, i + 1, BitOr(Shl(num, 4), HexDigit(hex[i])))

\* a leading "#" taken for a digit
hexToNumberBitNoHash(hex) == DFromInt(hexToNumberBitLoop(hex, 1, 0))

hexToNumberBit(hex) == DFromInt(hexToNumberBitLoop(hex, HexStart(hex), 0))

RECURSIVE hexToNumberLoop(_, _, _)
hexToNumberLoop(hex, i, num) ==
    IF i > Len(hex) THEN num
    ELSE hexToNumberLoop(hex, i + 1,
                         DAdd(DMul(num, DFromInt(16)),
                              DFromInt(HexDigit(hex[i]))))

hexToNumber(hex) == hexToNumberLoop(hex, HexStart(hex), D0)

RECURSIVE isHexLoop(_, _)
isHexLoop(hex, i) ==
    IF i > Len(hex) THEN TRUE
    ELSE IF HexDigit(hex[i]) > 15 THEN FALSE
    ELSE isHexLoop(hex, i + 1)

\* the short forms #RGB and #RGBA refused
isHexLong(hex) ==
    IF hex.type # "string" THEN FALSE
    ELSE IF Len(hex.chars) = 0 \/ hex.chars[1] # Hash THEN FALSE
    ELSE LET len == Len(hex.chars) - 1
         IN  IF len # 6 /\ len # 8 THEN FALSE
             ELSE isHexLoop(hex.chars, 2)

\* a value is [type |-> its typeof, chars |-> its code units if a string]
isHex(hex) ==
    IF hex.type # "string" THEN FALSE
    ELSE IF Len(hex.chars) = 0 \/ hex.chars[1] # Hash THEN FALSE
    ELSE LET len == Len(hex.chars) - 1
         IN  IF len # 6 /\ len # 8 /\ len # 3 /\ len # 4 THEN FALSE
             ELSE isHexLoop(hex.chars, 2)

hexToRgb(hex) == numberToRgb(hexToNumberBit(hex))

hexToRgba(hex) == numberToRgba(hexToNumber(hex))

randomRgb(u) == random(u[1], D0, D16777215)

randomRgba(u) == random(u[1], D0, D4294967295)

randomBrightNumberRgb(u) ==
    rgbToNumber(random(u[1], D128, D255), random(u[2], D128, D255),
                random(u[3], D128, D255))

randomPastelNumberRgb(u) ==
    rgbToNumber(random(u[1], D180, D230), random(u[2], D180, D230),
                random(u[3], D180, D230))

randomBrightNumberRgba(u) ==
    rgbaToNumber(random(u[1], D128, D255), random(u[2], D128, D255),
                 random(u[3], D128, D255), random(u[4], D128, D255))

randomPastelNumberRgba(u) ==
    rgbaToNumber(random(u[1], D180, D230), random(u[2], D180, D230),
                 random(u[3], D180, D230), random(u[4], D180, D230))

\* Color.HEX[i] in a string concatenation
HexChar(i) == IF i >= 0 /\ i <= 15 THEN <<HEX[i + 1]>> ELSE UndefinedText

\* the low digit of each channel written before the high one
rgbToHexLowFirst(r, g, b) ==
    <<Hash>> \o HexChar(BitAnd(ToInt32(r), 15)) \o HexChar(Sar(ToInt32(r), 4))
             \o HexChar(BitAnd(ToInt32(g), 15)) \o HexChar(Sar(ToInt32(g), 4))
             \o HexChar(BitAnd(ToInt32(b), 15)) \o HexChar(Sar(ToInt32(b), 4))

rgbToHex(r, g, b) ==
    <<Hash>> \o HexChar(Sar(ToInt32(r), 4)) \o HexChar(BitAnd(ToInt32(r), 15))
             \o HexChar(Sar(ToInt32(g), 4)) \o HexChar(BitAnd(ToInt32(g), 15))
             \o HexChar(Sar(ToInt32(b), 4)) \o HexChar(BitAnd(ToInt32(b), 15))

rgbaToHex(r, g, b, a) ==
    <<Hash>> \o HexChar(Sar(ToInt32(r), 4)) \o HexChar(BitAnd(ToInt32(r), 15))
             \o HexChar(Sar(ToInt32(g), 4)) \o HexChar(BitAnd(ToInt32(g), 15))
             \o HexChar(Sar(ToInt32(b), 4)) \o HexChar(BitAnd(ToInt32(b), 15))
             \o HexChar(Sar(ToInt32(a), 4)) \o HexChar(BitAnd(ToInt32(a), 15))

numberToHexRgb(num) ==
    rgbToHex(DFromInt(BitAnd(UShr(ToInt32(num), 16), 255)),
             DFromInt(BitAnd(UShr(ToInt32(num), 8), 255)),
             DFromInt(BitAnd(ToInt32(num), 255)))

\* a negative remainder left as it is
hsvHueNoWrap(hm) == hm

\* h = h % 360; if (h < 0) h += 360, where hm is h % 360
hsvHue(hm) == IF DLt(hm, D0) THEN DAdd(hm, D360) ELSE hm

\* Math.max(0, Math.min(100, p)) / 100
hsvUnit(p) == DDiv(MathMax(D0, MathMin(D100, p)), D100)

\* x = c * (1 - Math.abs((h / 60) % 2 - 1))
hsvX(h, c) == DMul(c, DSub(D1, DAbs(DSub(DMod(DDiv(h, D60), D2), D1))))

\* [r, g, b] before m is added: the permutation of {c, x, 0} of h's sector
hsvSector(h, c, x) ==
    IF DGe(h, D0) /\ DLt(h, D60) THEN <<c, x, D0>>
    ELSE IF DGe(h, D60) /\ DLt(h, D120) THEN <<x, c, D0>>
    ELSE IF DGe(h, D120) /\ DLt(h, D180) THEN <<D0, c, x>>
    ELSE IF DGe(h, D180) /\ DLt(h, D240) THEN <<D0, x, c>>
    ELSE IF DGe(h, D240) /\ DLt(h, DFromInt(300)) THEN <<x, D0, c>>
    ELSE <<c, D0, x>>

\* the returned array
hsvChannels(rgb, m) ==
    <<MathRound(DMul(DAdd(rgb[1], m), D255)),
      MathRound(DMul(DAdd(rgb[2], m), D255)),
      MathRound(DMul(DAdd(rgb[3], m), D255))>>

\* c = v * s is known: x, m = v - c and the sector follow
hsvChroma(h, v, c) == hsvChannels(hsvSector(h, c, hsvX(h, c)), DSub(v, c))

\* h in [0, 360), s and v in [0, 1]
hsvNormal(h, s, v) == hsvChroma(h, v, DMul(v, s))

hsvToRgb(h, s, v) == hsvNormal(hsvHue(DMod(h, D360)), hsvUnit(s), hsvUnit(v))

\* the offsets of the green and the blue case exchanged
hsvSwitchSwapped(r, g, b, max, delta) ==
    IF DEq(max, r)
    THEN DAdd(DDiv(DSub(g, b), delta), IF DLt(g, b) THEN D6 ELSE D0)
    ELSE IF DEq(max, g) THEN DAdd(DDiv(DSub(b, r), delta), D4)
    ELSE IF DEq(max, b) THEN DAdd(DDiv(DSub(r, g), delta), D2)
    ELSE D0

\* the switch on max, entered when delta !== 0
hsvSwitch(r, g, b, max, delta) ==
    IF DEq(max, r)
    THEN DAdd(DDiv(DSub(g, b), delta), IF DLt(g, b) THEN D6 ELSE D0)
    ELSE IF DEq(max, g) THEN DAdd(DDiv(DSub(b, r), delta), D2)
    ELSE IF DEq(max, b) THEN DAdd(DDiv(DSub(r, g), delta), D4)
    ELSE D0

\* delta = max - min is known: h, s, v and the returned array follow
hsvDelta(r, g, b, max, delta) ==
    <<MathRound(DMul(IF ~DEq(delta, D0)
                     THEN DDiv(hsvSwitch(r, g, b, max, delta), D6) ELSE D0,
                     D360)),
      MathRound(DMul(IF DEq(max, D0) THEN D0 ELSE DDiv(delta, max), D100)),
      MathRound(DMul(max, D100))>>

hsvRange(r, g, b, max, min) == hsvDelta(r, g, b, max, DSub(max, min))

\* r, g, b in [0, 1]
hsvOfUnit(r, g, b) ==
    hsvRange(r, g, b, MathMax(MathMax(r, g), b), MathMin(MathMin(r, g), b))

rgbToHsv(r, g, b) == hsvOfUnit(DDiv(r, D255), DDiv(g, D255), DDiv(b, D255))

\* what a Uint32Array element holds after palette[i] = num: ToUint32(num)
Uint32Of(num) == DFromHalves(Hi16(ToInt32(num)), Lo16(ToInt32(num)))

\* what ret holds after the call of the method op: the result of the call
Outcome(op, result) == [kind |-> result.kind, op |-> op, val |-> result.val]

\* the result of a call: a returned value or a thrown error
Return(v) == [kind |-> "return", val |-> v]

Throw(err) == [kind |-> "throw", val |-> err]

\* palette[i] = Color.rgbToNumber(r, g, b), where c is [r, g, b]
paletteEntry(c) == Uint32Of(rgbToNumber(c[1], c[2], c[3]))

\* the hues counted from step instead of 0
paletteHSVFromOne(count, step) ==
    [i \in 1..count |->
        paletteEntry(hsvToRgb(DMul(DFromInt(i), step), DFromInt(80), D60))]

\* the loop of generatePaletteHSV: entry i (from 1) has the hue (i - 1) * step
paletteHSV(count, step) ==
    [i \in 1..count |->
        paletteEntry(hsvToRgb(DMul(DFromInt(i - 1), step), DFromInt(80), D60))]

\* new Uint32Array(count) throws a RangeError for a negative integer count
generatePaletteHSV(count) ==
    IF count < 0 THEN Throw("RangeError")
    ELSE Return(paletteHSV(count, DDiv(D360, DFromInt(count))))

\* the hue of entry i (from 1), where u is the value Math.random() delivers
RECURSIVE goldenHue(_, _)
goldenHue(u, i) ==
    IF i = 0 THEN DMul(u, D360)
    ELSE DMod(DAdd(goldenHue(u, i - 1), DMul(goldenRatio, D360)), D360)

generatePaletteGolden(count, u) ==
    IF count < 0 THEN Throw("RangeError")
    ELSE Return([i \in 1..count |->
                    paletteEntry(hsvToRgb(goldenHue(u, i), DFromInt(70),
                                          DFromInt(65)))])

(***************************************************************************)
(* The callers: the arguments they pass and the values Math.random()       *)
(* delivers.                                                                *)
(***************************************************************************)
\* channels 0..MaxLowChannel are enumerated, the rest sampled
MaxLowChannel == 2

\* the longest string body (the characters after an optional "#")
MaxLen == 8

\* hues are sampled over -MaxTurns..MaxTurns full turns around the circle
MaxTurns == 1

\* palette sizes -MaxCount..MaxCount
MaxCount == 8

\* the values Math.random() delivers before the run ends
MaxDraws == 4

\* Math.random() delivers 0 or one of the MaxUlps doubles just below 1
MaxUlps == 2

ChannelSamples == (0..MaxLowChannel) \cup {115, 127, 128, 200, 251, 254, 255}

AlphaSamples == {0, 1, 127, 128, 255}

\* "0", "8", "9", "a", "f", "A", "F"
HexDigitChars == {48, 56, 57, 97, 102, 65, 70}

\* "g", "G", "x", "z", " ", ":", "@", U+4E2D
OtherChars == {103, 71, 120, 122, 32, 58, 64, 20013}

\* "0", "f", "A"
BaseChars == {48, 102, 65}

\* bodies of n characters: one character repeated, but for one position
Bodies(n) ==
    IF n = 0 THEN {<<>>}
    ELSE {[i \in 1..n |-> IF i = p THEN c2 ELSE c1] :
            p \in 1..n, c1 \in BaseChars, c2 \in HexDigitChars \cup OtherChars}

\* the strings of the documentation and the examples: "#abc", "#abcd",
\* "#a1b2c3", "#a1b2c3d4", "#xyz123", "#invalid", "abc123", "#ff8040"
DocStrings ==
    {<<35, 97, 98, 99>>, <<35, 97, 98, 99, 100>>,
     <<35, 97, 49, 98, 50, 99, 51>>, <<35, 97, 49, 98, 50, 99, 51, 100, 52>>,
     <<35, 120, 121, 122, 49, 50, 51>>, <<35, 105, 110, 118, 97, 108, 105, 100>>,
     <<97, 98, 99, 49, 50, 51>>, <<35, 102, 102, 56, 48, 52, 48>>}

HexStrings ==
    DocStrings \cup UNION {Bodies(n) \cup {<<Hash>> \o b : b \in Bodies(n)} :
                            n \in 0..MaxLen}

\* values that are not strings: 123, undefined, null, true, ["#","a","b","c"]
OtherValues ==
    {[type |-> "number", chars |-> <<>>], [type |-> "undefined", chars |-> <<>>],
     [type |-> "object", chars |-> <<>>], [type |-> "boolean", chars |-> <<>>],
     [type |-> "object", chars |-> <<35, 97, 98, 99>>]}

HueSamples ==
    {b + 360 * t : b \in {0, 1, 59, 60, 120, 180, 240, 300, 359},
                   t \in (-MaxTurns)..MaxTurns}

PercentSamples == {-1, 0, 22, 50, 100, 101}

\* 0, and 1 - j * 2^-53 for j in 1..MaxUlps
UniformSamples ==
    {D0} \cup {DExact(1, NSub(NShl(<<1>>, MantBits), NFromInt(j)), -MantBits) :
                j \in 1..MaxUlps}

NoResult == [kind |-> "none", op |-> "", val |-> <<>>]

Init ==
    /\ hist = <<>>
    /\ ret = NoResult
    /\ \/ /\ input \in [kind : {"rgb"}, r : ChannelSamples, g : ChannelSamples,
                        b : ChannelSamples]
          /\ rng = <<>>
       \/ /\ input \in [kind : {"rgba"}, r : AlphaSamples, g : AlphaSamples,
                        b : AlphaSamples, a : AlphaSamples]
          /\ rng = <<>>
       \/ /\ input \in [kind : {"value"},
                        value : [type : {"string"}, chars : HexStrings]
                                \cup OtherValues]
          /\ rng = <<>>
       \/ /\ input \in [kind : {"hsv"}, h : HueSamples, s : PercentSamples,
                        v : PercentSamples]
          /\ rng = <<>>
       \/ /\ input \in [kind : {"count"}, count : (-MaxCount)..MaxCount]
          /\ rng \in [1..1 -> UniformSamples]
       \/ /\ input \in [kind : {"random"}]
          /\ rng \in [1..MaxDraws -> UniformSamples]

\* a first call, on arguments of kind k
Fresh(k) == hist = <<>> /\ input.kind = k

\* a call on the value that op, called first, returned
After(op) == hist = <<op>> /\ ret.kind = "return"

\* a first call on a string
FreshString == Fresh("value") /\ input.value.type = "string"

Call(name, result) ==
    /\ hist' = Append(hist, name)
    /\ ret' = Outcome(name, result)
    /\ UNCHANGED <<input, rng>>

RgbToNumber ==
    /\ Fresh("rgb")
    /\ Call("rgbToNumber",
            Return(rgbToNumber(DFromInt(input.r), DFromInt(input.g),
                               DFromInt(input.b))))

RgbaToNumber ==
    /\ Fresh("rgba")
    /\ Call("rgbaToNumber",
            Return(rgbaToNumber(DFromInt(input.r), DFromInt(input.g),
                                DFromInt(input.b), DFromInt(input.a))))

NumberToRgb ==
    /\ After("rgbToNumber")
    /\ Call("numberToRgb", Return(numberToRgb(ret.val)))

NumberToRgba ==
    /\ After("rgbaToNumber")
    /\ Call("numberToRgba", Return(numberToRgba(ret.val)))

HexToNumberBit ==
    /\ FreshString
    /\ Call("hexToNumberBit", Return(hexToNumberBit(input.value.chars)))

HexToNumber ==
    /\ FreshString
    /\ Call("hexToNumber", Return(hexToNumber(input.value.chars)))

IsHex ==
    /\ Fresh("value")
    /\ Call("isHex", Return(isHex(input.value)))

HexToRgb ==
    /\ FreshString \/ After("rgbToHex")
    /\ Call("hexToRgb",
            Return(hexToRgb(IF hist = <<>> THEN input.value.chars ELSE ret.val)))

HexToRgba ==
    /\ FreshString \/ After("rgbaToHex")
    /\ Call("hexToRgba",
            Return(hexToRgba(IF hist = <<>> THEN input.value.chars ELSE ret.val)))

RgbToHex ==
    /\ Fresh("rgb")
    /\ Call("rgbToHex",
            Return(rgbToHex(DFromInt(input.r), DFromInt(input.g),
                            DFromInt(input.b))))

RgbaToHex ==
    /\ Fresh("rgba")
    /\ Call("rgbaToHex",
            Return(rgbaToHex(DFromInt(input.r), DFromInt(input.g),
                             DFromInt(input.b), DFromInt(input.a))))

NumberToHexRgb ==
    /\ After("hexToNumber")
    /\ Call("numberToHexRgb", Return(numberToHexRgb(ret.val)))

HsvToRgb ==
    /\ Fresh("hsv") \/ After("rgbToHsv")
    /\ Call("hsvToRgb",
            Return(IF hist = <<>>
                   THEN hsvToRgb(DFromInt(input.h), DFromInt(input.s),
                                 DFromInt(input.v))
                   ELSE hsvToRgb(ret.val[1], ret.val[2], ret.val[3])))

RgbToHsv ==
    /\ Fresh("rgb")
    /\ Call("rgbToHsv",
            Return(rgbToHsv(DFromInt(input.r), DFromInt(input.g),
                            DFromInt(input.b))))

GeneratePaletteHSV ==
    /\ Fresh("count")
    /\ Call("generatePaletteHSV", generatePaletteHSV(input.count))

\* a caller unpacks every entry of the palette and takes its hue, saturation
\* and value
PaletteHsv ==
    /\ After("generatePaletteHSV")
    /\ Call("rgbToHsv",
            Return([i \in 1..Len(ret.val) |->
                      rgbToHsv(numberToRgb(ret.val[i]).r,
                               numberToRgb(ret.val[i]).g,
                               numberToRgb(ret.val[i]).b)]))

\* Math.random() is called once, after the array is made
GeneratePaletteGolden ==
    /\ Fresh("count")
    /\ hist' = <<"generatePaletteGolden">>
    /\ ret' = Outcome("generatePaletteGolden",
                       generatePaletteGolden(input.count, rng[1]))
    /\ rng' = IF input.count < 0 THEN rng ELSE Tail(rng)
    /\ UNCHANGED input

\* a generator that calls Math.random() n times: any call sequence the
\* delivered values allow
Random(name, n, result) ==
    /\ input.kind = "random"
    /\ Len(rng) >= n
    /\ hist' = <<name>>
    /\ ret' = Outcome(name, Return(result))
    /\ rng' = SubSeq(rng, n + 1, Len(rng))
    /\ UNCHANGED input

RandomRgb == Random("randomRgb", 1, randomRgb(rng))

RandomRgba == Random("randomRgba", 1, randomRgba(rng))

RandomBrightNumberRgb ==
    Random("randomBrightNumberRgb", 3, randomBrightNumberRgb(rng))

RandomPastelNumberRgb ==
    Random("randomPastelNumberRgb", 3, randomPastelNumberRgb(rng))

RandomBrightNumberRgba ==
    Random("randomBrightNumberRgba", 4, randomBrightNumberRgba(rng))

RandomPastelNumberRgba ==
    Random("randomPastelNumberRgba", 4, randomPastelNumberRgba(rng))

Next ==
    \/ RgbToNumber \/ RgbaToNumber \/ NumberToRgb \/ NumberToRgba
    \/ HexToNumberBit \/ HexToNumber \/ IsHex \/ HexToRgb \/ HexToRgba
    \/ RandomRgb \/ RandomRgba
    \/ RandomBrightNumberRgb \/ RandomPastelNumberRgb
    \/ RandomBrightNumberRgba \/ RandomPastelNumberRgba
    \/ RgbToHex \/ RgbaToHex \/ NumberToHexRgb
    \/ HsvToRgb \/ RgbToHsv
    \/ GeneratePaletteHSV \/ GeneratePaletteGolden \/ PaletteHsv

Spec == Init /\ [][Next]_vars

(***************************************************************************)
(* The vocabulary of the properties.                                       *)
(***************************************************************************)
\* the code units of 0-9, A-F, a-f
HexDigits == (48..57) \cup (65..70) \cup (97..102)

AllHex(chars) == \A i \in 1..Len(chars) : chars[i] \in HexDigits

\* the characters after a leading "#"
Body(chars) == IF Len(chars) > 0 /\ chars[1] = Hash THEN Tail(chars) ELSE chars

\* a string in lower case
Lower(chars) ==
    [i \in 1..Len(chars) |->
        IF chars[i] \in 65..90 THEN chars[i] + 32 ELSE chars[i]]

\* the call sequence so far is exactly ops
Done(ops) == hist = ops

Abs(n) == IF n < 0 THEN -n ELSE n

\* byte k (0 the lowest) of the natural n, and what n holds from byte k up
Byte(n, k) == NToInt(NLowBits(NShr(n, 8 * k), 8))

Above(n, k) == NToInt(NShr(n, 8 * k))

\* the channels of the packed colours 0xRRGGBB and 0xRRGGBBAA, the red one
\* holding all that is above the bytes of the others
Channels3(d) ==
    [r |-> Above(NShl(d.m, d.e), 2), g |-> Byte(NShl(d.m, d.e), 1),
     b |-> Byte(NShl(d.m, d.e), 0)]

Channels4(d) ==
    [r |-> Above(NShl(d.m, d.e), 3), g |-> Byte(NShl(d.m, d.e), 2),
     b |-> Byte(NShl(d.m, d.e), 1), a |-> Byte(NShl(d.m, d.e), 0)]

\* a non-negative integral Number
IsNat(d) == DIsInt(d) /\ (d.sg = 1 \/ DIsZero(d))

(***************************************************************************)
(* C1                                                                      *)
(***************************************************************************)
\* C1: isHex returns false for every string that has, after the leading "#",
\* at least one character outside 0-9a-fA-F, whatever its length.
C1_NonHexRejected ==
    (/\ Done(<<"isHex">>)
     /\ input.value.type = "string"
     /\ Len(input.value.chars) > 0
     /\ input.value.chars[1] = Hash
     /\ ~AllHex(Tail(input.value.chars)))
    => ret.val = FALSE

C3_RgbaRoundTrip ==
    /\ Done(<<"rgbaToNumber">>)
       => /\ ret.val = DFromHalves(input.r * 256 + input.g,
                                   input.b * 256 + input.a)
          /\ IsNat(ret.val)
          /\ DCmp(ret.val, D4294967295) <= 0
    /\ Done(<<"rgbaToNumber", "numberToRgba">>)
       => ret.val = [r |-> DFromInt(input.r), g |-> DFromInt(input.g),
                     b |-> DFromInt(input.b), a |-> DFromInt(input.a)]

C3_Witness ==
    /\ Done(<<"rgbaToNumber", "numberToRgba">>)
    /\ input.r = 255 /\ input.g = 0 /\ input.b = 128 /\ input.a = 1
    /\ ret.val = [r |-> D255, g |-> D0, b |-> D128, a |-> D1]

(***************************************************************************)
(* C4                                                                      *)
(***************************************************************************)
\* the largest difference of a channel after rgbToHsv and hsvToRgb
RoundTripError ==
    LET d(i, x) == Abs(DToInt(ret.val[i]) - x)
        m(x, y) == IF x > y THEN x ELSE y
    IN  m(m(d(1, input.r), d(2, input.g)), d(3, input.b))

\* C4 as stated: after rgbToHsv and then hsvToRgb every channel differs from
\* the original by at most 1.
C4_WithinOne ==
    Done(<<"rgbToHsv", "hsvToRgb">>)
    => (\A i \in 1..3 : DIsInt(ret.val[i])) /\ RoundTripError <= 1

\* C4 as amended: after rgbToHsv and then hsvToRgb every channel differs from
\* the original by at most 3.
C4_WithinThree ==
    Done(<<"rgbToHsv", "hsvToRgb">>)
    => (\A i \in 1..3 : DIsInt(ret.val[i])) /\ RoundTripError <= 3

C4_Witness ==
    /\ Done(<<"rgbToHsv", "hsvToRgb">>)
    /\ input.r = 0 /\ input.g = 115 /\ input.b = 251
    /\ ret.val = <<D0, DFromInt(112), DFromInt(250)>>
    /\ RoundTripError = 3

(***************************************************************************)
(* C5                                                                      *)
(***************************************************************************)
\* C5: for H made of "#" and exactly 6 characters of 0-9a-fA-F,
\* numberToHexRgb(hexToNumber(H)) is H in lower case.
C5_HexRoundTrip ==
    (/\ Done(<<"hexToNumber", "numberToHexRgb">>)
     /\ Len(input.value.chars) = 7
     /\ input.value.chars[1] = Hash
     /\ AllHex(Tail(input.value.chars)))
    => ret.val = Lower(input.value.chars)

\* "#00000F" gives "#00000f"
C5_Witness ==
    /\ Done(<<"hexToNumber", "numberToHexRgb">>)
    /\ input.value.chars = <<35, 48, 48, 48, 48, 48, 70>>
    /\ ret.val = <<35, 48, 48, 48, 48, 48, 102>>

(***************************************************************************)
(* C6                                                                      *)
(***************************************************************************)
\* C6: generatePaletteHSV(count) and generatePaletteGolden(count) called with
\* a count <= 0, zero included, report an error and never return a sequence.
C6_DegenerateRejected ==
    (/\ Done(<<"generatePaletteHSV">>) \/ Done(<<"generatePaletteGolden">>)
     /\ input.count <= 0)
    => ret.kind = "throw"

(***************************************************************************)
(* C7                                                                      *)
(***************************************************************************)
\* every channel of c is in lo..hi
ChannelsIn(c, lo, hi) == \A k \in DOMAIN c : c[k] \in lo..hi

\* C7: whatever Math.random() delivers in [0, 1) and after any sequence of
\* calls, randomRgb returns an integer in 0..16777215, randomRgba one in
\* 0..4294967295, the bright generators a packed number with every channel
\* in 128..255 and the pastel generators one with every channel in 180..230.
C7_RandomInRange ==
    /\ Done(<<"randomRgb">>)
       => IsNat(ret.val) /\ DCmp(ret.val, D16777215) <= 0
    /\ Done(<<"randomRgba">>)
       => IsNat(ret.val) /\ DCmp(ret.val, D4294967295) <= 0
    /\ Done(<<"randomBrightNumberRgb">>)
       => IsNat(ret.val) /\ ChannelsIn(Channels3(ret.val), 128, 255)
    /\ Done(<<"randomBrightNumberRgba">>)
       => IsNat(ret.val) /\ ChannelsIn(Channels4(ret.val), 128, 255)
    /\ Done(<<"randomPastelNumberRgb">>)
       => IsNat(ret.val) /\ ChannelsIn(Channels3(ret.val), 180, 230)
    /\ Done(<<"randomPastelNumberRgba">>)
       => IsNat(ret.val) /\ ChannelsIn(Channels4(ret.val), 180, 230)

(***************************************************************************)
(* C8                                                                      *)
(***************************************************************************)
\* C8: for every string of at most 7 characters of 0-9a-fA-F, with or
\* without a leading "#", hexToNumberBit returns the same non-negative
\* number as hexToNumber.
C8_BitPathAgrees ==
    (/\ Done(<<"hexToNumberBit">>)
     /\ Len(Body(input.value.chars)) <= 7
     /\ AllHex(Body(input.value.chars)))
    => ret.val = hexToNumber(input.value.chars) /\ IsNat(ret.val)

\* "#fffffff" gives 268435455 on the bit-shift path
C8_Witness ==
    /\ Done(<<"hexToNumberBit">>)
    /\ input.value.chars = <<35, 102, 102, 102, 102, 102, 102, 102>>
    /\ ret.val = DFromInt(268435455)
    /\ hexToNumber(input.value.chars) = DFromInt(268435455)

(***************************************************************************)
(* C9                                                                      *)
(***************************************************************************)
\* C9: isHex returns true for every string made of "#" and exactly 3, 4, 6
\* or 8 characters of 0-9a-fA-F, and false for every value that is no
\* string, for every string whose first character is not "#", and for every
\* string whose length after the "#" is not 3, 4, 6 or 8.
C9_IsHexShape ==
    Done(<<"isHex">>)
    => IF input.value.type # "string" THEN ret.val = FALSE
       ELSE IF Len(input.value.chars) = 0 \/ input.value.chars[1] # Hash
       THEN ret.val = FALSE
       ELSE IF Len(input.value.chars) - 1 \notin {3, 4, 6, 8}
       THEN ret.val = FALSE
       ELSE AllHex(Tail(input.value.chars)) => ret.val = TRUE

\* "#Aff" is accepted
C9_Witness ==
    /\ Done(<<"isHex">>)
    /\ input.value = [type |-> "string", chars |-> <<35, 65, 102, 102>>]
    /\ ret.val = TRUE

(***************************************************************************)
(* C10                                                                     *)
(***************************************************************************)
Clamp(p) == IF p < 0 THEN 0 ELSE IF p > 100 THEN 100 ELSE p

\* C10: for integers h, s, v, hsvToRgb(h, s, v) is hsvToRgb(h mod 360 taken
\* in 0..359, s clamped to 0..100, v clamped to 0..100), its channels are
\* integers in 0..255, and red, green and blue are found at the hues 0, 120
\* and 240, the hue -120 counting as 240.
C10_HsvNormalised ==
    (Done(<<"hsvToRgb">>) /\ input.kind = "hsv")
    => /\ ret.val = hsvToRgb(DFromInt(input.h % 360), DFromInt(Clamp(input.s)),
                             DFromInt(Clamp(input.v)))
       /\ \A i \in 1..3 : IsNat(ret.val[i]) /\ DCmp(ret.val[i], D255) <= 0
       /\ (input.s = 100 /\ input.v = 100)
          => /\ input.h = 0 => ret.val = <<D255, D0, D0>>
             /\ input.h = 120 => ret.val = <<D0, D255, D0>>
             /\ input.h = 240 => ret.val = <<D0, D0, D255>>
             /\ input.h = -120 => ret.val = <<D0, D0, D255>>

\* hsvToRgb(-120, 101, 100) is blue
C10_Witness ==
    /\ Done(<<"hsvToRgb">>)
    /\ input.kind = "hsv"
    /\ input.h = -120 /\ input.s = 101 /\ input.v = 100
    /\ ret.val = <<D0, D0, D255>>

(***************************************************************************)
(* C11                                                                     *)
(***************************************************************************)
\* the packed colours 0x991f1f, 0x997a1f, 0x5c991f, 0x1f993d, 0x1f9999,
\* 0x1f3d99, 0x5c1f99, 0x991f7a
EightHues ==
    <<10034975, 10058271, 6068511, 2070845, 2070937, 2047385, 6037401,
      10035066>>

\* C11: generatePaletteHSV(8) returns exactly 8 packed RGB numbers, entry i
\* (from 0) being rgbToNumber of hsvToRgb(i * 45, 80, 60), and the hue that
\* rgbToHsv computes from the unpacked channels of entry i is within 1 degree
\* of i * 45.
C11_EvenHues ==
    /\ (Done(<<"generatePaletteHSV">>) /\ input.count = 8)
       => /\ ret.kind = "return"
          /\ Len(ret.val) = 8
          /\ \A i \in 0..7 :
                /\ ret.val[i + 1] = DFromInt(EightHues[i + 1])
                /\ ret.val[i + 1]
                   = rgbToNumber(hsvToRgb(DFromInt(i * 45), DFromInt(80),
                                          D60)[1],
                                 hsvToRgb(DFromInt(i * 45), DFromInt(80),
                                          D60)[2],
                                 hsvToRgb(DFromInt(i * 45), DFromInt(80),
                                          D60)[3])
    /\ (Done(<<"generatePaletteHSV", "rgbToHsv">>) /\ input.count = 8)
       => /\ Len(ret.val) = 8
          /\ \A i \in 0..7 :
                /\ DIsInt(ret.val[i + 1][1])
                /\ Abs(DToInt(ret.val[i + 1][1]) - i * 45) <= 1

\* the hues of the 8 entries are 0, 45, ..., 315
C11_Witness ==
    /\ Done(<<"generatePaletteHSV", "rgbToHsv">>)
    /\ input.count = 8
    /\ Len(ret.val) = 8
    /\ \A i \in 0..7 : DToInt(ret.val[i + 1][1]) = i * 45

(***************************************************************************)
(* C12                                                                     *)
(***************************************************************************)
\* C12: for r, g, b, a in 0..255, hexToRgb(rgbToHex(r, g, b)) is {r, g, b}
\* and hexToRgba(rgbaToHex(r, g, b, a)) is {r, g, b, a}; hexToNumberBit of
\* the first string and hexToNumber of the second are the packed colours.
C12_HexInverse ==
    /\ Done(<<"rgbToHex", "hexToRgb">>)
       => ret.val = [r |-> DFromInt(input.r), g |-> DFromInt(input.g),
                     b |-> DFromInt(input.b)]
    /\ Done(<<"rgbaToHex", "hexToRgba">>)
       => ret.val = [r |-> DFromInt(input.r), g |-> DFromInt(input.g),
                     b |-> DFromInt(input.b), a |-> DFromInt(input.a)]
    /\ Done(<<"rgbToHex">>)
       => /\ Len(ret.val) = 7
          /\ hexToNumberBit(ret.val)
             = DFromInt(input.r * 65536 + input.g * 256 + input.b)
    /\ Done(<<"rgbaToHex">>)
       => /\ Len(ret.val) = 9
          /\ hexToNumber(ret.val)
             = DFromHalves(input.r * 256 + input.g, input.b * 256 + input.a)

\* "#ff008001" decodes to {255, 0, 128, 1}
C12_Witness ==
    /\ Done(<<"rgbaToHex", "hexToRgba">>)
    /\ input.r = 255 /\ input.g = 0 /\ input.b = 128 /\ input.a = 1
    /\ ret.val = [r |-> D255, g |-> D0, b |-> D128, a |-> D1]

(***************************************************************************)
(* C13                                                                     *)
(***************************************************************************)
\* the long form of a short string: "#" and every digit after it written
\* twice
Doubled(chars) ==
    <<Hash>> \o [i \in 1..(2 * (Len(chars) - 1)) |->
                   chars[((i + 1) \div 2) + 1]]

\* C13: for hex digits R, G, B, A, hexToRgb("#RGB") returns what
\* hexToRgb("#RRGGBB") returns and hexToRgba("#RGBA") returns what
\* hexToRgba("#RRGGBBAA") returns.
C13_ShortForm ==
    /\ (/\ Done(<<"hexToRgb">>)
        /\ input.kind = "value"
        /\ input.value.type = "string"
        /\ Len(input.value.chars) = 4
        /\ input.value.chars[1] = Hash
        /\ AllHex(Tail(input.value.chars)))
       => ret.val = hexToRgb(Doubled(input.value.chars))
    /\ (/\ Done(<<"hexToRgba">>)
        /\ input.kind = "value"
        /\ input.value.type = "string"
        /\ Len(input.value.chars) = 5
        /\ input.value.chars[1] = Hash
        /\ AllHex(Tail(input.value.chars)))
       => ret.val = hexToRgba(Doubled(input.value.chars))
====
